---- MODULE Spec2Model ----
(***************************************************************************)
(* michigrad: a scalar reverse-mode autodiff engine (engine.py, class      *)
(* Value) and the neuron / layer / MLP composition built on it (nn.py).    *)
(*                                                                         *)
(* The heap of Value objects is the sequence `nodes`; a Value's identity   *)
(* is its index in that sequence, so a node is always allocated after its  *)
(* operands.  Python numbers are modelled as exact rationals <<n, d>>      *)
(* extended with the IEEE-754 specials (d = 0): <<1,0>> = inf,             *)
(* <<-1,0>> = -inf, <<0,0>> = nan.                                         *)
(***************************************************************************)
EXTENDS Integers, Sequences, FiniteSets, TLC

VARIABLES
    nodes,   \* the heap: every Value object allocated so far
    topo,    \* backward(): the part of reversed(topo) still to be processed
    root,    \* backward(): the node backward() is running on (0: not running)
    called,  \* history: nodes whose _backward ran in the current / last backward()
    err,     \* the exception raised by the last operation ("" if none)
    last,    \* history: the last public operation, with its arguments
    pre,     \* history: the heap as it was when the last operation started
    runs,    \* history: one record per completed backward() run
    net,     \* the MLP object: its layers, each a list of neurons [w, b]
    client   \* the caller's variables: the input list x, the network's
             \* output z, and (history) the number of forward passes and
             \* whether zero_grad() ran on the network since the last backward()

vars == <<nodes, topo, root, called, err, last, pre, runs, net, client>>

----------------------------------------------------------------------------
(* Bounds of the model *)

\* Engine specification: number of Value objects on the heap.
MaxNodes == 3

\* Operator specification: operations are applied while the heap holds fewer
\* Value objects than this.
MaxOperands == 3

\* Rerun specification: number of Value objects on the heap, and number of
\* backward() runs in one behaviour.
MaxRerunNodes == 3
MaxRuns == 2

\* Network specifications: number of parameters of the MLP, and number of
\* forward passes in one behaviour.
MaxParams == 9
MaxPasses == 2

----------------------------------------------------------------------------
(* Python numbers *)

Abs(n) == IF n < 0 THEN -n ELSE n

Sign(n) == IF n < 0 THEN -1 ELSE IF n > 0 THEN 1 ELSE 0

RECURSIVE GCD(_, _)
GCD(a, b) == IF b = 0 THEN a ELSE GCD(b, a % b)

\* The canonical form of n/d (d may be negative or zero).
Norm(n, d) ==
    IF d = 0 THEN <<Sign(n), 0>>
    ELSE LET g == GCD(Abs(n), Abs(d))
             s == IF d < 0 THEN -1 ELSE 1
         IN  <<(s * n) \div g, (s * d) \div g>>

Int2Num(n) == <<n, 1>>
Zero == Int2Num(0)
One  == Int2Num(1)
Inf  == <<1, 0>>
NaN  == <<0, 0>>

IsNaN(x)    == x = NaN
IsFinite(x) == x[2] # 0

\* x + y on floats / ints.
NAdd(x, y) ==
    IF IsNaN(x) \/ IsNaN(y) THEN NaN
    ELSE IF ~IsFinite(x) THEN (IF ~IsFinite(y) /\ y # x THEN NaN ELSE x)
    ELSE IF ~IsFinite(y) THEN y
    ELSE Norm(x[1] * y[2] + y[1] * x[2], x[2] * y[2])

\* x * y on floats / ints (0 * inf = nan falls out of Norm(0, 0)).
NMul(x, y) == Norm(x[1] * y[1], x[2] * y[2])

NNeg(x) == <<-x[1], x[2]>>

\* x < 0 and x > 0 (both False on nan).
NIsNeg(x) == x[1] < 0
NIsPos(x) == x[1] > 0

\* bool used as a number: True is 1, False is 0.
Bool2Num(b) == IF b THEN One ELSE Zero

RECURSIVE NPowNat(_, _)
NPowNat(x, n) == IF n = 0 THEN One ELSE NMul(x, NPowNat(x, n - 1))

\* |x| compared with 1, for a finite x: -1, 0 or 1.
CmpAbsOne(x) == Sign(Abs(x[1]) - x[2])

\* x / y on floats, for y # 0 (inf / inf = nan, x / inf = 0).
NDiv(x, y) == NMul(x, Norm(y[2], y[1]))

\* x ** e raises ZeroDivisionError: zero to a negative power.
PowRaises(x, e) == x = Zero /\ IsFinite(e) /\ e[1] < 0

\* x ** e for an exponent e that is an integer, inf, -inf or nan (and
\* ~PowRaises(x, e)).
PyPow(x, e) ==
    IF IsNaN(e) THEN (IF x = One THEN One ELSE NaN)
    ELSE IF ~IsFinite(e) THEN
        LET c == CmpAbsOne(x) IN
        IF IsNaN(x) THEN NaN
        ELSE IF c = 0 THEN One
        ELSE IF (c > 0) = (e = Inf) THEN Inf ELSE Zero
    ELSE IF e[1] >= 0 THEN NPowNat(x, e[1])
    ELSE NPowNat(Norm(x[2], x[1]), -e[1])

RECURSIVE IsPow2(_)
IsPow2(n) == n = 1 \/ (n > 1 /\ n % 2 = 0 /\ IsPow2(n \div 2))

\* x ** e is computed exactly in floating point (as PyPow computes it) on
\* these arguments; the model applies ** to such arguments only.
ExactPow(x, e) ==
    ~IsFinite(e) \/ e[1] >= 0 \/ ~IsFinite(x) \/ x = Zero \/ IsPow2(Abs(x[1]))

\* math.exp(x) is a float exactly only on these arguments; the model applies
\* exp, tanh and sigmoid to such values only.
ExactExp(x) == x = Zero \/ ~IsFinite(x)

\* math.exp(x), and math.e ** x, for ExactExp(x).
MathExp(x) ==
    IF x = Zero THEN One
    ELSE IF x = Inf THEN Inf
    ELSE IF x = NNeg(Inf) THEN Zero
    ELSE NaN

----------------------------------------------------------------------------
(* Value objects *)

\* list(_children)
PyList(children) == children

\* set(_children) for a tuple of at most two children: the elements of the
\* set, each once, listed by identity (the order a Python set is iterated
\* in is not specified: see PrevOrder).
PySet(children) ==
    IF Len(children) = 2 /\ children[1] = children[2] THEN <<children[1]>>
    ELSE IF Len(children) = 2 /\ children[1] > children[2]
         THEN <<children[2], children[1]>>
    ELSE children

\* Value.__init__: grad is 0, _prev is the set of the children, and the
\* _backward closure is modelled by its tag op and its captured variables
\* self, other (node identities, 0 if not captured) and k (the exponent).
Value(data, children, op, self, other, k) ==
    [data |-> data, grad |-> Zero, prev |-> PySet(children), op |-> op,
     self |-> self, other |-> other, k |-> k]

Leaf(data) == Value(data, <<>>, "", 0, 0, Zero)

\* A Python argument: a Value object (v = <<identity, 1>>), a number
\* (int or float, v its value) or a string.
ArgValue(i) == [t |-> "Value", v |-> Int2Num(i)]
ArgNum(x)   == [t |-> "num", v |-> x]
ArgStr      == [t |-> "str", v |-> Zero]

\* other = other if isinstance(other, Value) else Value(other):
\* the heap after the promotion, and the identity of `other` in it.
Promote(h, arg) == IF arg.t = "Value" THEN h ELSE Append(h, Leaf(arg.v))
PromoteId(h, arg) == IF arg.t = "Value" THEN arg.v[1] ELSE Len(h) + 1

\* Value.__add__(self, other): the heap after the call; the result is the
\* last node of it.
ValueAdd(h, self, arg) ==
    LET h1 == Promote(h, arg)
        o  == PromoteId(h, arg)
    IN  Append(h1, Value(NAdd(h1[self].data, h1[o].data), <<self, o>>, "+",
                         self, o, Zero))

\* Value.__mul__ as an in-place product: self.data is overwritten too.
ValueMulInPlace(h, self, arg) ==
    LET h1 == Promote(h, arg)
        o  == PromoteId(h, arg)
        d  == NMul(h1[self].data, h1[o].data)
    IN  Append([h1 EXCEPT ![self].data = d],
               Value(d, <<self, o>>, "*", self, o, Zero))

\* Value.__mul__(self, other).
ValueMul(h, self, arg) ==
    LET h1 == Promote(h, arg)
        o  == PromoteId(h, arg)
    IN  Append(h1, Value(NMul(h1[self].data, h1[o].data), <<self, o>>, "*",
                         self, o, Zero))

\* No assert.
PowNeverAsserts(arg) == FALSE

\* Value.__pow__: the assert on the exponent's type.
PowAsserts(arg) == arg.t # "num"

\* Value.__pow__(self, other), for an exponent that passes the assert and
\* a power that does not raise.
ValuePow(h, self, arg) ==
    Append(h, Value(PyPow(h[self].data, arg.v), <<self>>, "**", self, 0, arg.v))

\* Value.relu(self).
ValueRelu(h, self) ==
    Append(h, Value(IF NIsNeg(h[self].data) THEN Zero ELSE h[self].data,
                    <<self>>, "ReLU", self, 0, Zero))

\* Value.tanh(self).
ValueTanh(h, self) ==
    LET e_a_la_2x   == MathExp(NMul(Int2Num(2), h[self].data))
        numerador   == NAdd(e_a_la_2x, Int2Num(-1))
        denominador == NAdd(e_a_la_2x, One)
    IN  Append(h, Value(NDiv(numerador, denominador), <<self>>, "tanh",
                        self, 0, Zero))

\* Value.sigmoid(self).
ValueSigmoid(h, self) ==
    LET sigm == NDiv(One, NAdd(One, MathExp(NNeg(h[self].data))))
    IN  Append(h, Value(sigm, <<self>>, "sigmoid", self, 0, Zero))

\* Value.exp(self).
ValueExp(h, self) ==
    Append(h, Value(MathExp(h[self].data), <<self>>, "exp", self, 0, Zero))

\* Value.__neg__(self): self * -1.
ValueNeg(h, self) == ValueMul(h, self, ArgNum(Int2Num(-1)))

\* Value.__sub__(self, other): self + (-other).  -other is Value.__neg__
\* for a Value and the negated number for a number.
ValueSub(h, self, arg) ==
    IF arg.t = "Value"
    THEN LET h1 == ValueNeg(h, arg.v[1])
         IN  ValueAdd(h1, self, ArgValue(Len(h1)))
    ELSE ValueAdd(h, self, ArgNum(NNeg(arg.v)))

\* Value.__rsub__(self, other), other a number: other + (-self), which
\* Python resolves to Value.__radd__(-self, other) = (-self) + other.
ValueRsub(h, self, arg) ==
    LET h1 == ValueNeg(h, self)
    IN  ValueAdd(h1, Len(h1), arg)

\* other ** -1 in __truediv__ raises ZeroDivisionError.
DivRaises(h, arg) ==
    PowRaises(IF arg.t = "Value" THEN h[arg.v[1]].data ELSE arg.v,
              Int2Num(-1))

\* Value.__truediv__(self, other): self * other**-1.  other**-1 is
\* Value.__pow__ for a Value and the number's power for a number.
ValueTruediv(h, self, arg) ==
    IF arg.t = "Value"
    THEN LET h1 == ValuePow(h, arg.v[1], ArgNum(Int2Num(-1)))
         IN  ValueMul(h1, self, ArgValue(Len(h1)))
    ELSE ValueMul(h, self, ArgNum(PyPow(arg.v, Int2Num(-1))))

\* Value.__rtruediv__(self, other), other a number: other * self**-1, which
\* Python resolves to Value.__rmul__(self**-1, other) = self**-1 * other.
ValueRtruediv(h, self, arg) ==
    LET h1 == ValuePow(h, self, ArgNum(Int2Num(-1)))
    IN  ValueMul(h1, Len(h1), arg)

----------------------------------------------------------------------------
(* The backward pass *)

\* x.grad = d
AddGradAssign(h, x, d) == [h EXCEPT ![x].grad = d]

\* x.grad += d
AddGrad(h, x, d) == [h EXCEPT ![x].grad = NAdd(h[x].grad, d)]

\* v._backward() raises: the power in __pow__'s rule is zero to a negative
\* power.
PropagateRaises(h, v) ==
    h[v].op = "**" /\ PowRaises(h[h[v].self].data, NAdd(h[v].k, Int2Num(-1)))

\* The _backward closure of __add__, for the result node v (out): the two
\* statements run one after the other.
BackwardAdd(h, v) ==
    LET h1 == AddGrad(h, h[v].self, h[v].grad)
    IN  AddGrad(h1, h[v].other, h1[v].grad)

\* The _backward closure of __mul__.
BackwardMul(h, v) ==
    LET self  == h[v].self
        other == h[v].other
        h1 == AddGrad(h, self, NMul(h[other].data, h[v].grad))
    IN  AddGrad(h1, other, NMul(h1[self].data, h1[v].grad))

\* The _backward closure of __pow__ (other is the exponent k).
BackwardPow(h, v) ==
    LET self == h[v].self
        other == h[v].k
    IN  AddGrad(h, self,
                NMul(NMul(other, PyPow(h[self].data, NAdd(other, Int2Num(-1)))),
                     h[v].grad))

\* (out.data >= 0)
ReluGateGe(out) == Bool2Num(~NIsNeg(out.data))

\* (out.data > 0) in the _backward closure of relu.
ReluGate(out) == Bool2Num(NIsPos(out.data))

\* The _backward closure of relu.
BackwardRelu(h, v) == AddGrad(h, h[v].self, NMul(ReluGate(h[v]), h[v].grad))

\* The _backward closure of tanh.
BackwardTanh(h, v) ==
    AddGrad(h, h[v].self,
            NMul(NAdd(One, NNeg(PyPow(h[v].data, Int2Num(2)))), h[v].grad))

\* The _backward closure of sigmoid.
BackwardSigmoid(h, v) ==
    AddGrad(h, h[v].self,
            NMul(NMul(h[v].data, NAdd(One, NNeg(h[v].data))), h[v].grad))

\* The _backward closure of exp.
BackwardExp(h, v) == AddGrad(h, h[v].self, NMul(h[v].data, h[v].grad))

\* v._backward(): the heap after the closure of node v has run (a leaf's
\* is `lambda: None`).
Propagate(h, v) ==
    CASE h[v].op = "+"       -> BackwardAdd(h, v)
      [] h[v].op = "*"       -> BackwardMul(h, v)
      [] h[v].op = "**"      -> BackwardPow(h, v)
      [] h[v].op = "ReLU"    -> BackwardRelu(h, v)
      [] h[v].op = "tanh"    -> BackwardTanh(h, v)
      [] h[v].op = "sigmoid" -> BackwardSigmoid(h, v)
      [] h[v].op = "exp"     -> BackwardExp(h, v)
      [] OTHER               -> h

Reverse(s) == [i \in 1..Len(s) |-> s[Len(s) + 1 - i]]

\* The order `for child in v._prev` visits the set in: unspecified, so
\* either one; the nodes in rev visit theirs by descending identity.
PrevOrder(h, v, rev) == IF v \in rev THEN Reverse(h[v].prev) ELSE h[v].prev

\* build_topo appending v before it recurses into the children.
RECURSIVE build_topo_preorder(_, _, _, _)
build_topo_preorder(h, v, st, rev) ==
    IF v \in st.visited THEN st
    ELSE LET s0 == [visited |-> st.visited \cup {v}, topo |-> Append(st.topo, v)]
             kids == PrevOrder(h, v, rev)
             s1 == IF Len(kids) < 1 THEN s0
                   ELSE build_topo_preorder(h, kids[1], s0, rev)
         IN  IF Len(kids) < 2 THEN s1
             ELSE build_topo_preorder(h, kids[2], s1, rev)

\* build_topo(v) with the current visited set and topo list in st.
RECURSIVE build_topo(_, _, _, _)
build_topo(h, v, st, rev) ==
    IF v \in st.visited THEN st
    ELSE LET s0 == [visited |-> st.visited \cup {v}, topo |-> st.topo]
             kids == PrevOrder(h, v, rev)
             s1 == IF Len(kids) < 1 THEN s0
                   ELSE build_topo(h, kids[1], s0, rev)
             s2 == IF Len(kids) < 2 THEN s1
                   ELSE build_topo(h, kids[2], s1, rev)
         IN  [visited |-> s2.visited, topo |-> Append(s2.topo, v)]

Ids == 1..Len(nodes)

Idle == root = 0

Grads(h) == [i \in 1..Len(h) |-> h[i].grad]

\* Every grad reset to 0, then self.grad = 1.
SeedAfterReset(h, r) ==
    [i \in 1..Len(h) |-> [h[i] EXCEPT !.grad = IF i = r THEN One ELSE Zero]]

\* self.grad = 1
Seed(h, r) == [h EXCEPT ![r].grad = One]

\* The nodes whose _prev holds two nodes: the iteration order matters.
Binary == {v \in Ids : Len(nodes[v].prev) = 2}

\* backward(), up to the loop: topo is built, the root's grad is set to 1.
\* (runs notes the run: its root, the forward pass it follows and whether
\* zero_grad() ran on the network since the run before; its gradients are
\* filled in when it returns.)
BackwardStart(r, rev) ==
    /\ Idle
    /\ LET st == build_topo(nodes, r, [visited |-> {}, topo |-> <<>>], rev)
       IN  topo' = Reverse(st.topo)
    /\ nodes' = Seed(nodes, r)
    /\ root' = r
    /\ called' = <<>>
    /\ err' = ""
    /\ last' = [op |-> "backward", self |-> r, arg |-> ArgStr]
    /\ pre' = nodes
    /\ runs' = Append(runs, [root |-> r, pass |-> client.passes,
                             reset |-> client.reset, grad |-> <<>>])
    /\ client' = [client EXCEPT !.reset = FALSE]
    /\ UNCHANGED net

\* One iteration of `for v in reversed(topo): v._backward()`; backward()
\* returns after the last one, or when a rule raises.
BackwardStep ==
    /\ ~Idle
    /\ LET v == Head(topo) IN
       IF PropagateRaises(nodes, v)
       THEN /\ err' = "ZeroDivisionError"
            /\ topo' = <<>>
            /\ root' = 0
            /\ UNCHANGED <<nodes, called, runs>>
       ELSE /\ nodes' = Propagate(nodes, v)
            /\ called' = Append(called, v)
            /\ topo' = Tail(topo)
            /\ root' = IF Len(topo) = 1 THEN 0 ELSE root
            /\ runs' = IF Len(topo) = 1
                       THEN [runs EXCEPT ![Len(runs)].grad = Grads(nodes')]
                       ELSE runs
            /\ UNCHANGED err
    /\ UNCHANGED <<last, pre, net, client>>

----------------------------------------------------------------------------
(* Public operations of Value, called by client code *)

\* What every forward operation does to the rest of the state.
Called(op, self, arg) ==
    /\ last' = [op |-> op, self |-> self, arg |-> arg]
    /\ pre' = nodes
    /\ UNCHANGED <<topo, root, called, runs, net, client>>

Returns(h) == nodes' = h /\ err' = ""
Raises(e)  == UNCHANGED nodes /\ err' = e

\* Value(x)
NewValue(x) == Idle /\ Returns(Append(nodes, Leaf(x))) /\ Called("Value", 0, ArgNum(x))

\* self + other
Add(self, arg) == Idle /\ Returns(ValueAdd(nodes, self, arg)) /\ Called("+", self, arg)

\* self * other
Mul(self, arg) == Idle /\ Returns(ValueMul(nodes, self, arg)) /\ Called("*", self, arg)

\* self.relu()
Relu(self) == Idle /\ Returns(ValueRelu(nodes, self)) /\ Called("ReLU", self, ArgStr)

\* self ** other
Pow(self, arg) ==
    /\ Idle
    /\ PowAsserts(arg) \/ ExactPow(nodes[self].data, arg.v)
    /\ IF PowAsserts(arg) THEN Raises("AssertionError")
       ELSE IF PowRaises(nodes[self].data, arg.v) THEN Raises("ZeroDivisionError")
       ELSE Returns(ValuePow(nodes, self, arg))
    /\ Called("**", self, arg)

\* self.tanh()
Tanh(self) ==
    /\ Idle /\ ExactExp(nodes[self].data)
    /\ Returns(ValueTanh(nodes, self)) /\ Called("tanh", self, ArgStr)

\* self.sigmoid()
Sigmoid(self) ==
    /\ Idle /\ ExactExp(nodes[self].data)
    /\ Returns(ValueSigmoid(nodes, self)) /\ Called("sigmoid", self, ArgStr)

\* self.exp()
Exp(self) ==
    /\ Idle /\ ExactExp(nodes[self].data)
    /\ Returns(ValueExp(nodes, self)) /\ Called("exp", self, ArgStr)

\* -self
Neg(self) == Idle /\ Returns(ValueNeg(nodes, self)) /\ Called("neg", self, ArgStr)

\* self - other
Sub(self, arg) == Idle /\ Returns(ValueSub(nodes, self, arg)) /\ Called("-", self, arg)

\* other - self, other a number
Rsub(self, arg) == Idle /\ Returns(ValueRsub(nodes, self, arg)) /\ Called("r-", self, arg)

\* self / other
Truediv(self, arg) ==
    /\ Idle
    /\ ExactPow(IF arg.t = "Value" THEN nodes[arg.v[1]].data ELSE arg.v,
                Int2Num(-1))
    /\ IF DivRaises(nodes, arg) THEN Raises("ZeroDivisionError")
       ELSE Returns(ValueTruediv(nodes, self, arg))
    /\ Called("/", self, arg)

\* other / self, other a number
Rtruediv(self, arg) ==
    /\ Idle
    /\ ExactPow(nodes[self].data, Int2Num(-1))
    /\ IF DivRaises(nodes, ArgValue(self)) THEN Raises("ZeroDivisionError")
       ELSE Returns(ValueRtruediv(nodes, self, arg))
    /\ Called("r/", self, arg)

---------------------------------------------------------------------------------------------------------------------------------------------------
(* Specification Spec: client code builds a graph of leaves, sums and      *)
(* products, then calls backward() on one of its nodes                     *)

Init ==
    /\ nodes = <<>>
    /\ topo = <<>>
    /\ root = 0
    /\ called = <<>>
    /\ err = ""
    /\ last = [op |-> "", self |-> 0, arg |-> ArgStr]
    /\ pre = <<>>
    /\ runs = <<>>
    /\ net = <<>>
    /\ client = [x |-> <<>>, z |-> <<>>, passes |-> 0, reset |-> FALSE]

LeafVals == {Int2Num(-1), Zero, Int2Num(3)}

\* The client expression a*b + a*c on three leaves.
SumOfProducts(a, b, c) ==
    LET h1 == ValueMul(nodes, a, ArgValue(b))
        h2 == ValueMul(h1, a, ArgValue(c))
    IN  /\ Idle
        /\ Returns(ValueAdd(h2, Len(h1), ArgValue(Len(h2))))
        /\ Called("a*b+a*c", a, ArgValue(b))

\* The graph is built before backward() is called, and is at most this big
\* when an operation is applied.
Building == runs = <<>> /\ Len(nodes) < MaxNodes

Next ==
    \/ \E x \in LeafVals : Building /\ NewValue(x)
    \/ \E a, b \in Ids : Building /\ Add(a, ArgValue(b))
    \/ \E a, b \in Ids : Building /\ Mul(a, ArgValue(b))
    \/ \E a \in Ids : Building /\ Relu(a)
    \/ \E a, b, c \in Ids : /\ runs = <<>> /\ Len(nodes) <= MaxNodes
                            /\ \A i \in Ids : nodes[i].op = ""
                            /\ a # b /\ a # c /\ b < c
                            /\ SumOfProducts(a, b, c)
    \/ \E r \in Ids, rev \in SUBSET Binary : runs = <<>> /\ BackwardStart(r, rev)
    \/ BackwardStep

Spec == Init /\ [][Next]_vars

----------------------------------------------------------------------------
(* Specification SpecRerun: as Spec, with backward() called several times, *)
(* on any nodes, so that a run starts from the gradients the runs before   *)
(* left                                                                    *)

RerunBuilding == runs = <<>> /\ Len(nodes) < MaxRerunNodes

NextRerun ==
    \/ \E x \in LeafVals : RerunBuilding /\ NewValue(x)
    \/ \E a, b \in Ids : RerunBuilding /\ Add(a, ArgValue(b))
    \/ \E a, b \in Ids : RerunBuilding /\ Mul(a, ArgValue(b))
    \/ \E a \in Ids : RerunBuilding /\ Relu(a)
    \/ \E r \in Ids, rev \in SUBSET Binary :
           Len(runs) < MaxRuns /\ BackwardStart(r, rev)
    \/ BackwardStep

SpecRerun == Init /\ [][NextRerun]_vars

----------------------------------------------------------------------------
(* Specification SpecOps: every public operation of Value, applied to      *)
(* Value objects and to raw Python arguments                               *)

\* The raw numbers given as operands.
Literals == {ArgNum(Zero), ArgNum(Int2Num(2))}

\* A second operand: a Value object or a raw number.
Operands == {ArgValue(i) : i \in Ids} \cup Literals

\* The exponents given to **: ints, floats (inf and nan among them), a
\* string, a Value object.
Exponents ==
    {ArgNum(Int2Num(-1)), ArgNum(Zero), ArgNum(Int2Num(2)), ArgNum(Inf),
     ArgNum(NaN), ArgStr} \cup {ArgValue(i) : i \in Ids}

Applying == Len(nodes) < MaxOperands

NextOps ==
    \/ \E x \in LeafVals : Applying /\ NewValue(x)
    \/ \E a \in Ids, arg \in Operands : Applying /\ Add(a, arg)
    \/ \E a \in Ids, arg \in Operands : Applying /\ Mul(a, arg)
    \/ \E a \in Ids, arg \in Exponents : Applying /\ Pow(a, arg)
    \/ \E a \in Ids : Applying /\ Relu(a)
    \/ \E a \in Ids : Applying /\ Tanh(a)
    \/ \E a \in Ids : Applying /\ Sigmoid(a)
    \/ \E a \in Ids : Applying /\ Exp(a)
    \/ \E a \in Ids : Applying /\ Neg(a)
    \/ \E a \in Ids, arg \in Operands : Applying /\ Sub(a, arg)
    \/ \E a \in Ids, arg \in Literals : Applying /\ Rsub(a, arg)
    \/ \E a \in Ids, arg \in Operands : Applying /\ Truediv(a, arg)
    \/ \E a \in Ids, arg \in Literals : Applying /\ Rtruediv(a, arg)

SpecOps == Init /\ [][NextOps]_vars

----------------------------------------------------------------------------
(* Neuron, Layer, MLP *)

\* The values random.uniform(-1, 1) returns: the draw of a generator in
\* state seed that has drawn i times.
WeightVals == <<Norm(1, 2), Int2Num(-1), One, Norm(-1, 2)>>
Seeds == 1..Len(WeightVals)
Uniform(seed, i) == WeightVals[((seed + i) % Len(WeightVals)) + 1]

\* Neuron.__init__(nin) on heap h: nin weights, then the bias.
NewNeuron(h, nin, seed) ==
    [h |-> h \o [i \in 1..nin |-> Leaf(Uniform(seed, Len(h) + i))] \o <<Leaf(Zero)>>,
     m |-> [w |-> [i \in 1..nin |-> Len(h) + i], b |-> Len(h) + nin + 1]]

\* Layer.__init__(nin, nout): [Neuron(nin) for _ in range(nout)], appended
\* to the neurons made so far.
RECURSIVE NewLayer(_, _, _, _, _)
NewLayer(h, nin, nout, seed, neurons) ==
    IF nout = 0 THEN [h |-> h, m |-> neurons]
    ELSE LET n == NewNeuron(h, nin, seed)
         IN  NewLayer(n.h, nin, nout - 1, seed, Append(neurons, n.m))

\* MLP.__init__(nin, nouts): sz = [nin] + nouts, layer i is
\* Layer(sz[i], sz[i + 1]); layers are the layers made so far.
RECURSIVE NewMLP(_, _, _, _, _)
NewMLP(h, nin, nouts, seed, layers) ==
    IF nouts = <<>> THEN [h |-> h, m |-> layers]
    ELSE LET l == NewLayer(h, nin, Head(nouts), seed, <<>>)
         IN  NewMLP(l.h, Head(nouts), Tail(nouts), seed, Append(layers, l.m))

\* Neuron.parameters() with the bias left out.
NeuronWeights(n) == n.w

\* Neuron.parameters(): self.w + [self.b]
NeuronParameters(n) == Append(n.w, n.b)

\* Layer.parameters(): [p for n in self.neurons for p in n.parameters()]
RECURSIVE LayerParameters(_)
LayerParameters(neurons) ==
    IF neurons = <<>> THEN <<>>
    ELSE NeuronParameters(Head(neurons)) \o LayerParameters(Tail(neurons))

\* MLP.parameters(): [p for layer in self.layers for p in layer.parameters()]
RECURSIVE MLPParameters(_)
MLPParameters(layers) ==
    IF layers = <<>> THEN <<>>
    ELSE LayerParameters(Head(layers)) \o MLPParameters(Tail(layers))

\* A module: the network, its layer l, or neuron n of layer l.
Modules ==
    {<<"MLP", 0, 0>>} \cup {<<"Layer", l, 0>> : l \in 1..Len(net)}
    \cup UNION {{<<"Neuron", l, n>> : n \in 1..Len(net[l])} : l \in 1..Len(net)}

\* m.parameters()
Parameters(m) ==
    CASE m[1] = "MLP"    -> MLPParameters(net)
      [] m[1] = "Layer"  -> LayerParameters(net[m[2]])
      [] m[1] = "Neuron" -> NeuronParameters(net[m[2]][m[3]])

\* Module.zero_grad() with the loop body left out.
ZeroNone(h, ps) == h

\* Module.zero_grad(): for p in self.parameters(): p.grad = 0
RECURSIVE ZeroAll(_, _)
ZeroAll(h, ps) ==
    IF ps = <<>> THEN h
    ELSE ZeroAll([h EXCEPT ![Head(ps)].grad = Zero], Tail(ps))

\* Neuron.__call__(x): sum((wi * xi for wi, xi in zip(self.w, x)), self.b).
\* sum starts from the bias and adds each product as it is made; zip stops
\* at the shorter list.  acc is the running sum, i the next index.
RECURSIVE NeuronCall(_, _, _, _, _)
NeuronCall(h, n, x, acc, i) ==
    IF i > Len(n.w) \/ i > Len(x) THEN [h |-> h, out |-> acc]
    ELSE LET h1 == ValueMul(h, n.w[i], ArgValue(x[i]))
             h2 == ValueAdd(h1, acc, ArgValue(Len(h1)))
         IN  NeuronCall(h2, n, x, Len(h2), i + 1)

\* Layer.__call__(x): out = [n(x) for n in self.neurons]; outs are the
\* outputs so far.  (The caller gets out[0] for a single neuron, modelled
\* as the list of one node.)
RECURSIVE LayerCall(_, _, _, _)
LayerCall(h, neurons, x, outs) ==
    IF neurons = <<>> THEN [h |-> h, out |-> outs]
    ELSE LET r == NeuronCall(h, Head(neurons), x, Head(neurons).b, 1)
         IN  LayerCall(r.h, Tail(neurons), x, Append(outs, r.out))

\* MLP.__call__(x): for layer in self.layers: z = layer(x); return z.
\* z is the value of z so far.
RECURSIVE MLPCall(_, _, _, _)
MLPCall(h, layers, x, z) ==
    IF layers = <<>> THEN [h |-> h, out |-> z]
    ELSE LET r == LayerCall(h, Head(layers), x, <<>>)
         IN  MLPCall(r.h, Tail(layers), x, r.out)

----------------------------------------------------------------------------
(* Specification SpecNN: a network is made, then called on an input list,  *)
(* backward() is called on an output, zero_grad() on the network, and      *)
(* again                                                                   *)

\* The number of parameters of MLP(nin, nouts).
RECURSIVE ParamCount(_, _)
ParamCount(nin, nouts) ==
    IF nouts = <<>> THEN 0
    ELSE Head(nouts) * (nin + 1) + ParamCount(Head(nouts), Tail(nouts))

\* The lists of layer sizes tried (a layer has two parameters or more).
Shapes ==
    UNION {[1..len -> 1..(MaxParams \div 2)] : len \in 1..(MaxParams \div 2)}

InitNN ==
    /\ \E nin \in 1..MaxParams, nouts \in Shapes, seed \in Seeds :
           /\ ParamCount(nin, nouts) <= MaxParams
           /\ LET mlp == NewMLP(<<>>, nin, nouts, seed, <<>>)
              IN  nodes = mlp.h /\ net = mlp.m
    /\ topo = <<>>
    /\ root = 0
    /\ called = <<>>
    /\ err = ""
    /\ last = [op |-> "", self |-> 0, arg |-> ArgStr]
    /\ pre = <<>>
    /\ runs = <<>>
    /\ client = [x |-> <<>>, z |-> <<>>, passes |-> 0, reset |-> FALSE]

\* The numbers the caller gives as inputs.
InputVals == <<One, Int2Num(-1), Int2Num(2)>>

\* x = [Value(v) for v in ...]: one input per weight of a first-layer
\* neuron, the values taken in turn from InputVals starting after the s-th.
Inputs(s) ==
    /\ Idle /\ client.x = <<>>
    /\ LET nin == Len(net[1][1].w)
           n == Len(nodes)
       IN  /\ nodes' = nodes \o [i \in 1..nin |->
                           Leaf(InputVals[((s + i) % Len(InputVals)) + 1])]
           /\ client' = [client EXCEPT !.x = [i \in 1..nin |-> n + i]]
    /\ err' = ""
    /\ last' = [op |-> "Value", self |-> 0, arg |-> ArgStr]
    /\ pre' = nodes
    /\ UNCHANGED <<topo, root, called, runs, net>>

\* z = net(x)
Forward ==
    /\ Idle /\ client.x # <<>>
    /\ client.passes < MaxPasses
    /\ LET r == MLPCall(nodes, net, client.x, <<>>)
       IN  /\ nodes' = r.h
           /\ client' = [client EXCEPT !.z = r.out, !.passes = @ + 1]
    /\ err' = ""
    /\ last' = [op |-> "call", self |-> 0, arg |-> ArgStr]
    /\ pre' = nodes
    /\ UNCHANGED <<topo, root, called, runs, net>>

\* m.zero_grad()
ZeroGrad(m) ==
    /\ Idle
    /\ nodes' = ZeroAll(nodes, Parameters(m))
    /\ client' = [client EXCEPT !.reset = (m[1] = "MLP")]
    /\ err' = ""
    /\ last' = [op |-> "zero_grad", self |-> 0,
                arg |-> [t |-> m[1], v |-> <<m[2], m[3]>>]]
    /\ pre' = nodes
    /\ UNCHANGED <<topo, root, called, runs, net>>

\* The iteration orders of the operand sets tried for a network's graph:
\* every set in the order its operands were given, and every set in the
\* other order.
Orders == {{}, Binary}

NextNN ==
    \/ \E s \in 1..Len(InputVals) : Inputs(s)
    \/ last.op \in {"Value", "zero_grad"} /\ Forward
    \/ \E i \in 1..Len(client.z), rev \in Orders :
           /\ last.op \in {"call", "zero_grad"} /\ Len(runs) < MaxRuns
           /\ BackwardStart(client.z[i], rev)
    \/ BackwardStep
    \/ last.op = "backward" /\ ZeroGrad(<<"MLP", 0, 0>>)

SpecNN == InitNN /\ [][NextNN]_vars

----------------------------------------------------------------------------
(* Specification SpecZero: a network is made and called, backward() is     *)
(* called on an output, then zero_grad() on the network, a layer or a      *)
(* neuron                                                                  *)

NextZero ==
    \/ \E s \in 1..Len(InputVals) : Inputs(s)
    \/ last.op = "Value" /\ Forward
    \/ \E i \in 1..Len(client.z), rev \in Orders :
           last.op = "call" /\ BackwardStart(client.z[i], rev)
    \/ BackwardStep
    \/ \E m \in Modules : last.op = "backward" /\ ZeroGrad(m)

SpecZero == InitNN /\ [][NextZero]_vars

----------------------------------------------------------------------------
(* Properties of the engine *)

\* backward() has returned normally and nothing was called since.
Done == Idle /\ last.op = "backward" /\ err = ""

SeqRange(s) == {s[i] : i \in 1..Len(s)}

\* The nodes reachable from r through operand edges, r included.
RECURSIVE Reach(_, _)
Reach(h, r) == {r} \cup UNION {Reach(h, c) : c \in SeqRange(h[r].prev)}

\* The reachable consumers of n: the nodes of Reach(h, r) that have n as an
\* operand.
Consumers(h, r, n) == {c \in Reach(h, r) : n \in SeqRange(h[c].prev)}

\* d(r)/d(n) for a graph of leaves, sums and products: the sum over the
\* operand paths from r to n of the product of the local derivatives.
RECURSIVE Deriv(_, _, _)
Deriv(h, r, n) ==
    IF r = n THEN One
    ELSE CASE h[r].op = "+" ->
                NAdd(Deriv(h, h[r].self, n), Deriv(h, h[r].other, n))
           [] h[r].op = "*" ->
                NAdd(NMul(h[h[r].other].data, Deriv(h, h[r].self, n)),
                     NMul(h[h[r].self].data, Deriv(h, h[r].other, n)))
           [] OTHER -> Zero

ZeroBefore == \A i \in 1..Len(pre) : pre[i].grad = Zero

SumsAndProducts(h, r) == \A n \in Reach(h, r) : h[n].op \in {"", "+", "*"}

\* C1: after backward() on a root of a graph of leaves, sums and products
\* whose gradients were all 0, the gradient of every node reachable from the
\* root is d(root)/d(node), the sum over the operand paths of the products of
\* the local derivatives.
C1_GradientIsDerivative ==
    (Done /\ ZeroBefore /\ SumsAndProducts(nodes, last.self))
        => \A n \in Reach(nodes, last.self) :
               nodes[n].grad = Deriv(nodes, last.self, n)

\* backward() has run on add(multiply(a,b), multiply(a,c)) for three leaves
\* a, b, c of different values, and a.grad is b.value + c.value.
C1_Witness ==
    /\ Done
    /\ nodes[last.self].op = "+"
    /\ LET m1 == nodes[nodes[last.self].self]
           m2 == nodes[nodes[last.self].other]
       IN  /\ m1.op = "*" /\ m2.op = "*"
           /\ nodes[last.self].self # nodes[last.self].other
           /\ m1.self = m2.self
           /\ Cardinality({m1.self, m1.other, m2.other}) = 3
           /\ \A l \in {m1.self, m1.other, m2.other} : nodes[l].op = ""
           /\ nodes[m1.other].data = Int2Num(3)
           /\ nodes[m2.other].data = Int2Num(-1)
           /\ nodes[m1.self].grad = Int2Num(2)

NoDuplicates(s) == \A i, j \in 1..Len(s) : i # j => s[i] # s[j]

\* C2: during backward() on a root, the _backward rule of each reachable
\* node is invoked exactly once, the root's first, and a node's rule only
\* after the rule of every reachable consumer of that node.
C2_ConsumersFirst ==
    last.op = "backward" =>
        /\ NoDuplicates(called)
        /\ SeqRange(called) \subseteq Reach(nodes, last.self)
        /\ Len(called) >= 1 => called[1] = last.self
        /\ \A j \in 1..Len(called) :
               \A c \in Consumers(nodes, last.self, called[j]) :
                   \E i \in 1..(j - 1) : called[i] = c
        /\ Done => SeqRange(called) = Reach(nodes, last.self)

\* backward() has run on a diamond: some reachable node has two reachable
\* consumers, one of which consumes the other.
C2_Witness ==
    /\ Done
    /\ \E n \in Reach(nodes, last.self) :
           \E c, d \in Consumers(nodes, last.self, n) :
               c # d /\ d \in Consumers(nodes, last.self, c)

\* C5: a sum or product of a node with itself has that node once in its
\* operand set (no operand set holds a node twice), a product a*a has value
\* a.value^2, and after backward() from it on zeroed gradients a.grad is
\* 2*a.value for the product and 2 for the sum.
C5_SelfUse ==
    /\ \A v \in Ids : NoDuplicates(nodes[v].prev)
    /\ \A v \in Ids :
           (nodes[v].op \in {"+", "*"} /\ nodes[v].self = nodes[v].other) =>
               /\ nodes[v].prev = <<nodes[v].self>>
               /\ nodes[v].op = "*" =>
                      nodes[v].data = PyPow(nodes[nodes[v].self].data, Int2Num(2))
               /\ (Done /\ ZeroBefore /\ last.self = v) =>
                      nodes[nodes[v].self].grad =
                          IF nodes[v].op = "*"
                          THEN NMul(Int2Num(2), nodes[nodes[v].self].data)
                          ELSE Int2Num(2)

\* backward() has run on multiply(a,a) with a.value = 3: value 9, a.grad 6.
C5_Witness ==
    /\ Done
    /\ nodes[last.self].op = "*"
    /\ nodes[last.self].self = nodes[last.self].other
    /\ nodes[nodes[last.self].self].data = Int2Num(3)
    /\ nodes[last.self].data = Int2Num(9)
    /\ nodes[nodes[last.self].self].grad = Int2Num(6)

\* C10: relu(a) has value max(0, a.value); in backward() it adds the
\* result's gradient to a.grad when the result's value is > 0 and adds 0
\* otherwise (stated for an a whose only reachable consumer is the relu).
C10_Relu ==
    \A v \in Ids : nodes[v].op = "ReLU" =>
        LET a == nodes[v].self IN
        /\ nodes[v].data = IF nodes[a].data[1] > 0 THEN nodes[a].data ELSE Zero
        /\ (Done /\ v \in Reach(nodes, last.self)
                 /\ Consumers(nodes, last.self, a) = {v}) =>
               nodes[a].grad =
                   NAdd(pre[a].grad,
                        IF nodes[v].data[1] > 0 THEN nodes[v].grad ELSE Zero)

\* backward() has run on relu(a) for a leaf a of value 0: the relu's value
\* is 0 and a.grad is 0.
C10_Witness ==
    /\ Done
    /\ nodes[last.self].op = "ReLU"
    /\ nodes[nodes[last.self].self].op = ""
    /\ nodes[nodes[last.self].self].data = Zero
    /\ nodes[last.self].data = Zero
    /\ nodes[last.self].grad = One
    /\ nodes[nodes[last.self].self].grad = Zero

RECURSIVE SumOver(_, _, _, _)
\* The sum of f(h, c, n) over the nodes c of S.
SumOver(f(_, _, _), h, S, n) ==
    IF S = {} THEN Zero
    ELSE LET c == CHOOSE x \in S : TRUE
         IN  NAdd(f(h, c, n), SumOver(f, h, S \ {c}, n))

\* What the rule of consumer c adds to n.grad, given c's gradient: one term
\* per occurrence of n among c's operands.
Contribution(h, c, n) ==
    LET g == h[c].grad
        s == IF h[c].self = n
             THEN CASE h[c].op = "+" -> g
                    [] h[c].op = "*" -> NMul(h[h[c].other].data, g)
                    [] h[c].op = "ReLU" ->
                           IF h[c].data[1] > 0 THEN g ELSE NMul(Zero, g)
                    [] OTHER -> Zero
             ELSE Zero
        o == IF h[c].other = n
             THEN CASE h[c].op = "+" -> g
                    [] h[c].op = "*" -> NMul(h[h[c].self].data, g)
                    [] OTHER -> Zero
             ELSE Zero
    IN  NAdd(s, o)

\* C6: backward() does not reset gradients.  Whatever the gradients were,
\* after the call the root's is 1, each other reachable node's is its prior
\* gradient plus what the rules of its reachable consumers added, each
\* unreachable node's is unchanged, and no node's value, operand set or rule
\* changed (nor was a node allocated).
C6_NoReset ==
    Done =>
        LET r == last.self IN
        /\ Len(nodes) = Len(pre)
        /\ \A n \in Ids : [nodes[n] EXCEPT !.grad = Zero]
                              = [pre[n] EXCEPT !.grad = Zero]
        /\ nodes[r].grad = One
        /\ \A n \in Ids \ Reach(nodes, r) : nodes[n].grad = pre[n].grad
        /\ \A n \in Reach(nodes, r) \ {r} :
               nodes[n].grad =
                   NAdd(pre[n].grad,
                        SumOver(Contribution, nodes, Consumers(nodes, r, n), n))

\* A second backward() has run, from gradients that were not 0: they were
\* kept by an unreachable node and added to by a reachable one, and the
\* root's, which was not 1, is 1.
C6_Witness ==
    /\ Done
    /\ Len(runs) = 2
    /\ pre[last.self].grad \notin {Zero, One}
    /\ \E n \in Ids \ Reach(nodes, last.self) :
           pre[n].grad # Zero /\ nodes[n].grad = pre[n].grad
    /\ \E n \in Reach(nodes, last.self) \ {last.self} :
           pre[n].grad # Zero /\ nodes[n].grad # pre[n].grad

----------------------------------------------------------------------------
(* Properties of the operations *)

\* The public operations that construct a result node.
ForwardOps ==
    {"+", "*", "**", "ReLU", "tanh", "sigmoid", "exp", "neg", "-", "/",
     "r-", "r/"}

BinaryOps == {"+", "*", "-", "/"}

\* The existing nodes an operation was given as operands.
GivenNodes ==
    {last.self} \cup
    (IF last.op \in BinaryOps /\ last.arg.t = "Value" THEN {last.arg.v[1]}
     ELSE {})

\* No field of a node that existed before the operation has changed.
OldNodesUnchanged ==
    Len(nodes) >= Len(pre) /\ SubSeq(nodes, 1, Len(pre)) = pre

\* C8 as stated: every public operation allocates exactly one new node,
\* whose operands are the given operand nodes, and changes no field of an
\* existing node.
C8_ExactlyOneNode ==
    (last.op \in ForwardOps /\ err = "") =>
        /\ Len(nodes) = Len(pre) + 1
        /\ SeqRange(nodes[Len(nodes)].prev) = GivenNodes
        /\ OldNodesUnchanged

\* The number of nodes the last operation allocates.
Allocated ==
    CASE last.op \in {"+", "*"} -> IF last.arg.t = "Value" THEN 1 ELSE 2
      [] last.op \in {"**", "ReLU", "tanh", "sigmoid", "exp"} -> 1
      [] last.op = "neg" -> 2
      [] last.op = "-" -> IF last.arg.t = "Value" THEN 3 ELSE 2
      [] last.op = "/" -> 2
      [] last.op = "r-" -> 4
      [] last.op = "r/" -> 3

\* The operands of the result of the last operation; n is the heap size
\* before it.
ResultOperands ==
    LET n == Len(pre) IN
    CASE last.op \in {"+", "*"} ->
            {last.self, IF last.arg.t = "Value" THEN last.arg.v[1] ELSE n + 1}
      [] last.op \in {"**", "ReLU", "tanh", "sigmoid", "exp"} -> {last.self}
      [] last.op = "neg" -> {last.self, n + 1}
      [] last.op = "-" ->
            {last.self, IF last.arg.t = "Value" THEN n + 2 ELSE n + 1}
      [] last.op = "/" -> {last.self, n + 1}
      [] last.op = "r-" -> {n + 2, n + 3}
      [] last.op = "r/" -> {n + 1, n + 2}

\* C8, amended: a primitive operation on existing nodes allocates exactly
\* one node, whose operands are the given nodes; a raw number given to add
\* or multiply is promoted to one more new leaf, an operand of the result;
\* the derived operations allocate two to four nodes and their result has a
\* newly allocated node among its operands.  No operation changes a field of
\* a node that existed, and one that raises allocates nothing.
C8_AllocatesAndKeeps ==
    /\ (last.op \in ForwardOps /\ err = "") =>
           /\ OldNodesUnchanged
           /\ Len(nodes) = Len(pre) + Allocated
           /\ SeqRange(nodes[Len(nodes)].prev) = ResultOperands
           /\ \A i \in (Len(pre) + 1)..Len(nodes) : nodes[i].grad = Zero
    /\ (last.op \in ForwardOps /\ err # "") => nodes = pre

\* a - b was applied to two existing nodes: three nodes were allocated
\* (-1, b * -1 and the sum) and the result's operands are a and b * -1.
C8_Witness ==
    /\ last.op = "-" /\ last.arg.t = "Value" /\ err = ""
    /\ last.self # last.arg.v[1]
    /\ Len(nodes) = Len(pre) + 3
    /\ nodes[Len(nodes)].prev = <<last.self, Len(pre) + 2>>
    /\ nodes[Len(pre) + 2].prev = <<last.arg.v[1], Len(pre) + 1>>

\* The exponent is a finite real number.
FiniteReal(arg) == arg.t = "num" /\ IsFinite(arg.v)

\* C7 as stated: power(a, k) with k not a finite real number (not a number,
\* a node, infinite or nan) raises, constructs no node and leaves every
\* node unchanged.
C7_RejectsNonFinite ==
    (last.op = "**" /\ ~FiniteReal(last.arg)) => (err # "" /\ nodes = pre)

\* C7, amended: power(a, k) with k not an int or float (a string, a node)
\* raises AssertionError, constructs no node and leaves every node
\* unchanged; with k an infinite or nan float it is accepted and constructs
\* the result node.
C7_RejectsNonNumbers ==
    last.op = "**" =>
        /\ last.arg.t # "num" => (err = "AssertionError" /\ nodes = pre)
        /\ (last.arg.t = "num" /\ ~IsFinite(last.arg.v)) =>
               /\ err = ""
               /\ OldNodesUnchanged
               /\ Len(nodes) = Len(pre) + 1
               /\ nodes[Len(nodes)].op = "**"
               /\ nodes[Len(nodes)].k = last.arg.v

\* power(a, b) was called with a node b as the exponent: it raised, and the
\* heap, of two nodes or more, is as it was.
C7_Witness ==
    /\ last.op = "**" /\ last.arg.t = "Value"
    /\ err = "AssertionError"
    /\ Len(nodes) >= 2 /\ nodes = pre

----------------------------------------------------------------------------
(* Properties of the network *)

\* The parameter slots of the network: weight k of neuron n of layer l, the
\* bias being the slot after the last weight.
AllSlots ==
    UNION {UNION {{<<l, n, k>> : k \in 1..(Len(net[l][n].w) + 1)}
                  : n \in 1..Len(net[l])} : l \in 1..Len(net)}

Slots(m) ==
    {s \in AllSlots : \/ m[1] = "MLP"
                      \/ m[1] = "Layer" /\ m[2] = s[1]
                      \/ m[1] = "Neuron" /\ m[2] = s[1] /\ m[3] = s[2]}

SlotNode(s) ==
    LET neuron == net[s[1]][s[2]]
    IN  IF s[3] <= Len(neuron.w) THEN neuron.w[s[3]] ELSE neuron.b

\* Slot t comes before slot s: an earlier layer, or an earlier neuron of the
\* layer, or an earlier weight of the neuron (the bias last).
Before(t, s) ==
    \/ t[1] < s[1]
    \/ t[1] = s[1] /\ t[2] < s[2]
    \/ t[1] = s[1] /\ t[2] = s[2] /\ t[3] < s[3]

Rank(m, s) == 1 + Cardinality({t \in Slots(m) : Before(t, s)})

ModuleNodes(m) == {SlotNode(s) : s \in Slots(m)}

\* The module zero_grad() was last called on.
LastModule == <<last.arg.t, last.arg.v[1], last.arg.v[2]>>

\* C9: for the network, each layer and each neuron, parameters() lists the
\* module's weight and bias leaves once each, layer by layer, neuron by
\* neuron, a neuron's weights then its bias; and zero_grad() sets the
\* gradient of exactly those leaves to 0, changing nothing else of any node.
C9_ZeroGradIsParameters ==
    /\ \A m \in Modules :
           LET ps == Parameters(m) IN
           /\ Len(ps) = Cardinality(Slots(m))
           /\ NoDuplicates(ps)
           /\ \A s \in Slots(m) : ps[Rank(m, s)] = SlotNode(s)
    /\ last.op = "zero_grad" =>
           /\ Len(nodes) = Len(pre)
           /\ \A i \in Ids :
                  nodes[i] = IF i \in ModuleNodes(LastModule)
                             THEN [pre[i] EXCEPT !.grad = Zero]
                             ELSE pre[i]

\* zero_grad() has run on a layer of two neurons or more after a backward():
\* a parameter of the layer had a gradient other than 0, and a node that is
\* not a parameter of the layer still has one.
C9_Witness ==
    /\ last.op = "zero_grad"
    /\ last.arg.t = "Layer"
    /\ Len(net[LastModule[2]]) >= 2
    /\ \E i \in ModuleNodes(LastModule) : pre[i].grad # Zero
    /\ \E i \in Ids \ ModuleNodes(LastModule) : nodes[i].grad # Zero

\* C4 as claimed: after a call of a network of two layers or more, every
\* parameter of every layer is reachable from an output node, and a node
\* that has an input among its operands has a first-layer parameter as the
\* other.
C4_LayersChained ==
    (last.op = "call" /\ Len(net) >= 2) =>
        /\ \A p \in SeqRange(MLPParameters(net)) :
               \E i \in 1..Len(client.z) : p \in Reach(nodes, client.z[i])
        /\ \A c \in Ids :
               SeqRange(nodes[c].prev) \cap SeqRange(client.x) # {}
                   => SeqRange(nodes[c].prev)
                          \cap SeqRange(LayerParameters(net[1])) # {}

\* The bias of the neuron whose output v is: the leaf the running sum
\* started from.
RECURSIVE OutputOf(_, _)
OutputOf(h, v) == IF h[v].prev = <<>> THEN v ELSE OutputOf(h, h[v].self)

\* Run k of backward() is the first on the graph of its forward pass, and,
\* unless it is the first run of all, zero_grad() ran on the network since
\* the run before.
Fresh(k) ==
    /\ \A j \in 1..(k - 1) : runs[j].pass # runs[k].pass
    /\ k = 1 \/ runs[k].reset

\* C3 as claimed: backward() on a root, zero_grad() on the network, and
\* backward() on the same root again leave the gradient of every parameter
\* and of every node reachable from the root as the first run left it.
C3_SameRootIdempotent ==
    (Done /\ Len(runs) >= 2) =>
        LET k == Len(runs) IN
        (Fresh(k - 1) /\ runs[k].reset /\ runs[k].root = runs[k - 1].root) =>
            \A n \in Reach(nodes, runs[k].root)
                     \cup SeqRange(MLPParameters(net)) :
                runs[k].grad[n] = runs[k - 1].grad[n]

\* C3: backward() on an output of the network, zero_grad() on the network,
\* a new forward pass on the same inputs and backward() on the same output
\* of the new graph leave the gradient of every parameter as the first run
\* left it (and the new root's gradient is 1).
C3_FreshPassIdempotent ==
    Done =>
        \A j, k \in 1..Len(runs) :
            (/\ j < k
             /\ Fresh(j) /\ Fresh(k)
             /\ OutputOf(nodes, runs[j].root) = OutputOf(nodes, runs[k].root))
            => /\ runs[k].grad[runs[k].root] = One
               /\ \A p \in SeqRange(MLPParameters(net)) :
                      runs[k].grad[p] = runs[j].grad[p]

\* backward() has run on the same output of two forward passes, with a
\* zero_grad() on the network in between, and a weight has a gradient other
\* than 0.
C3_Witness ==
    /\ Done
    /\ Len(runs) = 2
    /\ Fresh(1) /\ Fresh(2)
    /\ runs[1].root # runs[2].root
    /\ OutputOf(nodes, runs[1].root) = OutputOf(nodes, runs[2].root)
    /\ \E l \in 1..Len(net) : \E n \in 1..Len(net[l]) :
           \E k \in 1..Len(net[l][n].w) :
               runs[2].grad[net[l][n].w[k]] \notin {Zero, One}

====
